---- MODULE Spec2Model ----
(***************************************************************************)
(* Wolfie_AV_Player (src/app.py): a tkinter application that watches a hot *)
(* folder with a watchdog Observer and opens every new video file with the *)
(* default handler after a delay.                                          *)
(*                                                                         *)
(* Threads of one process: the Tk main thread (operator commands), the     *)
(* starter thread that runs observer.start(), and the observer's dispatch  *)
(* thread, which calls VideoHandler.on_created for each queued event and   *)
(* blocks inside it for time.sleep(self.delay).                            *)
(*                                                                         *)
(* on_created is modelled step by step (condition, log line, count, sleep, *)
(* launch), because the main thread runs commands between these steps.     *)
(* The condition is one step: is_running only ever goes from True to       *)
(* False, so reading is_paused and is_running apart allows nothing more.   *)
(*                                                                         *)
(* Of the watchdog library the model keeps what its interface states:      *)
(* schedule/start deliver the creation events of the folder to the handler *)
(* one at a time on one thread; stop() signals that thread to end, which   *)
(* it does between two events; join(timeout) waits for the thread's end or *)
(* for the timeout; join() of a thread never started raises RuntimeError.  *)
(* A folder that is not there makes schedule or start raise; which of the  *)
(* two is left open.                                                       *)
(*                                                                         *)
(* Time is discrete (one tick = one second).  A thread that can run does   *)
(* so before time passes; time passes only while the dispatch thread       *)
(* sleeps or the main thread waits in a timed join.  Timers that expire at *)
(* the same instant fire in either order.                                  *)
(***************************************************************************)
EXTENDS Integers, Sequences, FiniteSets, TLC

VARIABLES
    \* Application (main thread)
    mpc,            \* position of the main thread
    delay,          \* Application.delay
    video_count,    \* Application.video_count
    is_watching,    \* Application.is_watching
    observer,       \* Application.observer is not None
    event_handler,  \* Application.event_handler is not None
    hot_folder,     \* Application.hot_folder
    log,            \* contents of the video_log text widget, one entry per line
    msg,            \* last messagebox shown to the operator
    joinRem,        \* seconds left of observer.join(timeout=5)
    \* the VideoHandler of the current session
    h_delay, h_paused, h_running,
    \* the Observer of the current session
    o_stopped,      \* observer.stop() has been called
    thr,            \* dispatch thread: "new" (not started), "failed" (never
                    \* to be started), "run", "dead"
    queue,          \* the observer's event queue
    \* dispatch thread inside on_created
    tpc,            \* "idle", "cb", "cnt", "slp", "sleeping", "crashed"
    cur,            \* the event on_created is handling
    rem,            \* seconds left of time.sleep
    \* history (not program state): what happened to each raised event
    ev,             \* sequence, one record per file-system notification
    sid,            \* number of sessions (handler/observer pairs) created
    stopRet,        \* stop_watching has returned for the current session
    nOps,           \* operator commands issued so far
    shut,           \* the steps of safe_exit that have been called
    \* the port table of the host (instance lock)
    ports,          \* set of ports currently bound
    inst            \* per program instance: its startup position and socket

vars == <<mpc, delay, video_count, is_watching, observer, event_handler,
          hot_folder, log, msg, joinRem, h_delay, h_paused, h_running,
          o_stopped, thr, queue, tpc, cur, rem, ev, sid, stopRet, nOps,
          ports, inst, shut>>

appVars == <<mpc, delay, video_count, is_watching, observer, event_handler,
             hot_folder, log, msg, joinRem, h_delay, h_paused, h_running,
             o_stopped, thr, queue, tpc, cur, rem, ev, sid, stopRet, nOps,
             shut>>

lockVars == <<ports, inst>>

----------------------------------------------------------------------------
(* Bounds of the model *)

MaxEvents == 2

MaxOps == 2

(* Program constants *)

DefaultDelay == 5

JoinTimeout == 5

----------------------------------------------------------------------------
(* Python values *)

\* a Python float: NaN, or a whole number of seconds
Float(n) == [nan |-> FALSE, v |-> n]

NaN == [nan |-> TRUE, v |-> 0]

\* x < n for a float x and an integer n: every comparison with NaN is False
FloatLt(x, n) == ~x.nan /\ x.v < n

\* x >= n
FloatGe(x, n) == ~x.nan /\ x.v >= n

RECURSIVE LowerStr(_)
LowerChar(c) ==
    CASE c = "A" -> "a" [] c = "B" -> "b" [] c = "I" -> "i" [] c = "K" -> "k"
      [] c = "M" -> "m" [] c = "N" -> "n" [] c = "P" -> "p" [] c = "V" -> "v"
      [] OTHER -> c

\* str.lower()
LowerStr(s) == IF s = <<>> THEN <<>> ELSE <<LowerChar(Head(s))>> \o LowerStr(Tail(s))

\* str.endswith(suffix)
EndsWith(s, suf) ==
    /\ Len(s) >= Len(suf)
    /\ SubSeq(s, Len(s) - Len(suf) + 1, Len(s)) = suf

VideoExts == { <<".", "m", "p", "4">>, <<".", "a", "v", "i">>, <<".", "m", "k", "v">> }

\* event.src_path.lower().endswith(('.mp4', '.avi', '.mkv'))
EndsWithVideoExt(path) == \E suf \in VideoExts : EndsWith(LowerStr(path), suf)

RECURSIVE Basename(_)
\* os.path.basename: what follows the last "/"
Basename(path) ==
    IF \E i \in 1..Len(path) : path[i] = "/"
    THEN Basename(Tail(path))
    ELSE path


Digits == {"0", "1", "2", "3", "4", "5", "6", "7", "8", "9"}

DigitVal(c) ==
    CASE c = "0" -> 0 [] c = "1" -> 1 [] c = "2" -> 2 [] c = "3" -> 3
      [] c = "4" -> 4 [] c = "5" -> 5 [] c = "6" -> 6 [] c = "7" -> 7
      [] c = "8" -> 8 [] OTHER -> 9

RECURSIVE DigitsVal(_)
DigitsVal(s) ==
    IF s = <<>> THEN 0
    ELSE 10 * DigitsVal(SubSeq(s, 1, Len(s) - 1)) + DigitVal(s[Len(s)])

\* float(text): [ok |-> FALSE] stands for ValueError.  An optional sign, then
\* "nan" in any case (a float that is not a number) or decimal digits.
ParseFloat(txt) ==
    LET signed == txt # <<>> /\ Head(txt) \in {"-", "+"}
        body   == IF signed THEN Tail(txt) ELSE txt
        sign   == IF signed /\ Head(txt) = "-" THEN -1 ELSE 1
    IN  IF LowerStr(body) = <<"n", "a", "n">>
        THEN [ok |-> TRUE, val |-> NaN]
        ELSE IF body # <<>> /\ \A i \in 1..Len(body) : body[i] \in Digits
        THEN [ok |-> TRUE, val |-> Float(sign * DigitsVal(body))]
        ELSE [ok |-> FALSE, val |-> NaN]

----------------------------------------------------------------------------
(* Inputs *)

\* what the operator may type into the delay entry
DelayTexts ==
    { <<"0">>, <<"6">>, <<"-", "1">>, <<"a", "b", "c">>, <<"n", "a", "n">> }

\* folders the operator may pick in the folder dialog
Folders == {"E", "X"}

\* the folder is there and can be watched ("X" has been removed since it
\* was picked)
DirExists(f) == f # "X"

\* observer.schedule(handler, folder): does the call raise?  The library may
\* find a missing folder in schedule, or only later, in observer.start()
ScheduleRaises(f) == IF DirExists(f) THEN {FALSE} ELSE {FALSE, TRUE}

\* names created in the watched folder, with event.is_directory
Creations ==
    { [name |-> <<"B", ".", "M", "k", "v">>, isDir |-> FALSE],
      [name |-> <<"n", ".", "t", "x", "t">>, isDir |-> FALSE],
      [name |-> <<"d", ".", "a", "v", "i">>, isDir |-> TRUE] }

\* outcome of opening a file with the default handler: opened, the opener
\* returned a non-zero exit status, or the call raised
LaunchOutcomes == {"ok", "nonzero", "raise"}

NoEvent == [id |-> 0, path |-> <<>>, isDir |-> FALSE]

----------------------------------------------------------------------------
(* Log entries are lines of text, kept as a sequence of tokens *)

\* f"{detection_time} - {video_name}"
DetectionEntry(path) == <<"TS", " - ", Basename(path)>>

ResumedEntry == <<"Monitoring", " resumed">>

PausedEntry == <<"Monitoring", " paused">>

\* video_info.startswith("Monitoring")
StartsWithMonitoring(info) == info # <<>> /\ info[1] = "Monitoring"

\* add_video_to_list, first half: insert the line at the end of the widget
LogInsert(info) == Append(log, info)

\* add_video_to_list, second half: status messages are not counted
CountAfter(info) ==
    IF ~StartsWithMonitoring(info) THEN video_count + 1 ELSE video_count

----------------------------------------------------------------------------
(* State after Application.__init__ *)

\* the history record of a notification
NewHistory(path, isDir) ==
    [path |-> path, isDir |-> isDir, sid |-> sid,
     rp |-> h_paused,       \* raised while the handler was paused
     handled |-> FALSE,     \* on_created has evaluated its condition
     hp |-> FALSE,          \* ... while the handler was paused
     hr |-> FALSE,          \* ... while the handler was running
     det |-> 0,             \* Detection entries inserted
     cnt |-> 0,             \* increments of video_count
     slp |-> 0,             \* sleeps started
     slpErr |-> FALSE,      \* time.sleep raised
     d |-> 0,               \* the delay the sleep was started with
     el |-> 0,              \* seconds elapsed since the sleep started
     lau |-> 0,             \* calls of play_video
     lp |-> <<>>,           \* the path play_video was called with
     pd |-> FALSE,          \* toggle_watching paused during the sleep
     pl |-> FALSE,          \* handler paused when play_video was called
     dn |-> 0,              \* rank of its Detection entry among all
                            \* insertions and launches
     ln |-> 0,              \* rank of its launch among them
     as |-> FALSE,          \* play_video called after stop_watching returned
     q |-> FALSE]           \* time passed while it was in the observer's queue

InitApp ==
    /\ mpc = "idle"
    /\ delay = Float(DefaultDelay)
    /\ video_count = 0
    /\ is_watching = TRUE
    /\ observer = TRUE
    /\ event_handler = TRUE
    /\ hot_folder = "D"
    /\ log = <<>>
    /\ msg = "none"
    /\ joinRem = 0
    /\ h_delay = Float(DefaultDelay)
    /\ h_paused = FALSE
    /\ h_running = TRUE
    /\ o_stopped = FALSE
    /\ thr = "new"
    /\ queue = <<>>
    /\ tpc = "idle"
    /\ cur = NoEvent
    /\ rem = 0
    /\ ev = <<>>
    /\ sid = 1
    /\ stopRet = FALSE
    /\ nOps = 0
    /\ shut = {}


----------------------------------------------------------------------------
(* The dispatch thread: BaseObserver.run -> VideoHandler.on_created *)

RECURSIVE IssuedUpTo(_)
\* Detection entries inserted and launches issued for the first k events
IssuedUpTo(k) ==
    IF k = 0 THEN 0 ELSE IssuedUpTo(k - 1) + ev[k].det + ev[k].lau

\* Detection entries inserted and launches issued so far
Issued == IssuedUpTo(Len(ev))

Alive == mpc # "exited"

\* on_created as it would be without the is_directory test
OnCreatedGuardNoDir(e) ==
    /\ ~h_paused
    /\ h_running
    /\ EndsWithVideoExt(e.path)

\* on_created as it would be without the is_running test
OnCreatedGuardNoRunning(e) ==
    /\ ~h_paused
    /\ ~e.isDir
    /\ EndsWithVideoExt(e.path)

\* on_created as it would be without the is_paused test
OnCreatedGuardNoPause(e) ==
    /\ ~e.isDir
    /\ h_running
    /\ EndsWithVideoExt(e.path)

\* the condition of on_created
OnCreatedGuard(e) ==
    /\ ~h_paused
    /\ ~e.isDir
    /\ h_running
    /\ EndsWithVideoExt(e.path)

\* a dispatcher that would hand the next event over while on_created sleeps
CanDispatchWhileSleeping == tpc \in {"idle", "sleeping"} /\ ~o_stopped

\* the dispatch thread takes the next event only between two calls of the
\* handler, and only until observer.stop()
CanDispatch == tpc = "idle" /\ ~o_stopped

\* a sleep that would return one second early
SleepOverEarly == rem <= 1

\* the delay elapsed: time.sleep returns
SleepOver == rem = 0

\* The thread takes the next event from the queue and calls on_created,
\* which evaluates its condition.
Dispatch ==
    /\ Alive /\ thr = "run" /\ CanDispatch /\ queue # <<>>
    /\ LET e == Head(queue) IN
         /\ queue' = Tail(queue)
         /\ ev' = [ev EXCEPT ![e.id].handled = TRUE,
                             ![e.id].hp = h_paused,
                             ![e.id].hr = h_running]
         /\ IF OnCreatedGuard(e)
            THEN tpc' = "cb" /\ cur' = e
            ELSE tpc' = "idle" /\ cur' = NoEvent
    /\ UNCHANGED <<mpc, delay, video_count, is_watching, observer,
                   event_handler, hot_folder, log, msg, joinRem, h_delay,
                   h_paused, h_running, o_stopped, thr, rem, sid, stopRet,
                   nOps, ports, inst, shut>>

\* self.callback(...) = add_video_to_list: the line is inserted
CallbackInsert ==
    /\ Alive /\ thr = "run" /\ tpc = "cb"
    /\ log' = LogInsert(DetectionEntry(cur.path))
    /\ ev' = [ev EXCEPT ![cur.id].det = @ + 1, ![cur.id].dn = Issued + 1]
    /\ tpc' = "cnt"
    /\ UNCHANGED <<mpc, delay, video_count, is_watching, observer,
                   event_handler, hot_folder, msg, joinRem, h_delay,
                   h_paused, h_running, o_stopped, thr, queue, cur, rem,
                   sid, stopRet, nOps, ports, inst, shut>>

\* add_video_to_list: the line is counted
CallbackCount ==
    /\ Alive /\ thr = "run" /\ tpc = "cnt"
    /\ video_count' = CountAfter(DetectionEntry(cur.path))
    /\ ev' = [ev EXCEPT ![cur.id].cnt = @ + (video_count' - video_count)]
    /\ tpc' = "slp"
    /\ UNCHANGED <<mpc, delay, is_watching, observer, event_handler,
                   hot_folder, log, msg, joinRem, h_delay, h_paused,
                   h_running, o_stopped, thr, queue, cur, rem, sid, stopRet,
                   nOps, ports, inst, shut>>

\* time.sleep(self.delay) begins; it raises ValueError for NaN or a negative
\* value, which ends the dispatch thread
SleepStart ==
    /\ Alive /\ thr = "run" /\ tpc = "slp"
    /\ IF h_delay.nan \/ h_delay.v < 0
       THEN /\ tpc' = "crashed" /\ thr' = "dead"
            /\ ev' = [ev EXCEPT ![cur.id].slpErr = TRUE]
            /\ UNCHANGED rem
       ELSE /\ tpc' = "sleeping" /\ rem' = h_delay.v
            /\ ev' = [ev EXCEPT ![cur.id].slp = @ + 1, ![cur.id].d = h_delay.v]
            /\ thr' = thr
    /\ UNCHANGED <<mpc, delay, video_count, is_watching, observer,
                   event_handler, hot_folder, log, msg, joinRem, h_delay,
                   h_paused, h_running, o_stopped, queue, cur, sid, stopRet,
                   nOps, ports, inst, shut>>

\* time.sleep has returned: self.play_video(event.src_path)
PlayVideo(outcome) ==
    /\ Alive /\ thr = "run" /\ tpc = "sleeping" /\ SleepOver
    /\ ev' = [ev EXCEPT ![cur.id].lau = @ + 1,
                        ![cur.id].ln = Issued + 1,
                        ![cur.id].lp = cur.path,
                        ![cur.id].pl = h_paused,
                        ![cur.id].as = stopRet]
    /\ IF outcome = "raise"
       THEN tpc' = "crashed" /\ thr' = "dead" /\ cur' = cur
       ELSE tpc' = "idle" /\ thr' = thr /\ cur' = NoEvent
    /\ UNCHANGED <<mpc, delay, video_count, is_watching, observer,
                   event_handler, hot_folder, log, msg, joinRem, h_delay,
                   h_paused, h_running, o_stopped, queue, rem, sid, stopRet,
                   nOps, ports, inst, shut>>

\* the loop of the dispatch thread ends once observer.stop() was called
ThreadExit ==
    /\ Alive /\ thr = "run" /\ tpc = "idle" /\ o_stopped
    /\ thr' = "dead"
    /\ UNCHANGED <<mpc, delay, video_count, is_watching, observer,
                   event_handler, hot_folder, log, msg, joinRem, h_delay,
                   h_paused, h_running, o_stopped, queue, tpc, cur, rem, ev,
                   sid, stopRet, nOps, ports, inst, shut>>

\* the starter thread: observer.start()
ObserverStart ==
    /\ Alive /\ thr = "new"
    /\ thr' = "run"
    /\ UNCHANGED <<mpc, delay, video_count, is_watching, observer,
                   event_handler, hot_folder, log, msg, joinRem, h_delay,
                   h_paused, h_running, o_stopped, queue, tpc, cur, rem, ev,
                   sid, stopRet, nOps, ports, inst, shut>>

\* the starter thread: observer.start() raises for a folder that is not
\* there; the exception ends the starter thread, the dispatch thread is
\* never started and nothing is shown to the operator
ObserverStartFail ==
    /\ Alive /\ thr = "new" /\ ~DirExists(hot_folder)
    /\ thr' = "failed"
    /\ UNCHANGED <<mpc, delay, video_count, is_watching, observer,
                   event_handler, hot_folder, log, msg, joinRem, h_delay,
                   h_paused, h_running, o_stopped, queue, tpc, cur, rem, ev,
                   sid, stopRet, nOps, ports, inst, shut>>

\* a file or directory is created in the watched folder: the emitter queues
\* a creation event (also when the dispatch thread has ended by an exception:
\* the event then stays in the queue)
RaiseEvent(c) ==
    /\ Alive /\ thr \in {"run", "dead"} /\ ~o_stopped
    /\ DirExists(hot_folder)
    /\ Len(ev) < MaxEvents
    /\ LET path == <<hot_folder, "/">> \o c.name IN
         /\ ev' = Append(ev, NewHistory(path, c.isDir))
         /\ queue' = Append(queue, [id |-> Len(ev) + 1, path |-> path,
                                    isDir |-> c.isDir])
    /\ UNCHANGED <<mpc, delay, video_count, is_watching, observer,
                   event_handler, hot_folder, log, msg, joinRem, h_delay,
                   h_paused, h_running, o_stopped, thr, tpc, cur, rem, sid,
                   stopRet, nOps, ports, inst, shut>>

\* a thread that can run now
ThreadReady ==
    \/ thr = "new"
    \/ /\ thr = "run"
       /\ \/ tpc \in {"cb", "cnt", "slp"}
          \/ tpc = "sleeping" /\ rem = 0
          \/ tpc = "idle" /\ (o_stopped \/ queue # <<>>)

\* the main thread's join ends now
JoinReady ==
    /\ mpc \in {"sw_join", "st_join", "ro_join"}
    /\ thr # "run" \/ (mpc \in {"sw_join", "st_join"} /\ joinRem = 0)

\* the main thread is between two statements that take no time
MainReady == mpc \in {"sw_stop", "st_stop", "ro_start"}

\* one second passes
Tick ==
    /\ Alive /\ ~ThreadReady /\ ~JoinReady /\ ~MainReady
    /\ \/ thr = "run" /\ tpc = "sleeping" /\ rem > 0
       \/ mpc \in {"sw_join", "st_join"} /\ joinRem > 0
    /\ rem' = IF thr = "run" /\ tpc = "sleeping" THEN rem - 1 ELSE rem
    /\ joinRem' = IF mpc \in {"sw_join", "st_join"} THEN joinRem - 1
                  ELSE joinRem
    /\ ev' = [i \in 1..Len(ev) |->
                IF thr = "run" /\ tpc = "sleeping" /\ cur.id = i
                THEN [ev[i] EXCEPT !.el = @ + 1]
                ELSE IF \E k \in 1..Len(queue) : queue[k].id = i
                THEN [ev[i] EXCEPT !.q = TRUE]
                ELSE ev[i]]
    /\ UNCHANGED <<mpc, delay, video_count, is_watching, observer,
                   event_handler, hot_folder, log, msg, h_delay, h_paused,
                   h_running, o_stopped, thr, queue, tpc, cur, sid, stopRet,
                   nOps, ports, inst, shut>>


----------------------------------------------------------------------------
(* The main thread: operator commands *)

\* the mainloop is free to run a command
CanCommand == mpc = "idle" /\ nOps < MaxOps

\* toggle_watching
ToggleWatching ==
    /\ CanCommand
    /\ is_watching' = ~is_watching
    /\ h_paused' = ~is_watching'
    /\ log' = LogInsert(IF is_watching' THEN ResumedEntry ELSE PausedEntry)
    /\ video_count' = CountAfter(IF is_watching' THEN ResumedEntry ELSE PausedEntry)
    /\ ev' = [i \in 1..Len(ev) |->
                IF h_paused' /\ thr = "run" /\ tpc = "sleeping" /\ rem > 0
                   /\ cur.id = i
                THEN [ev[i] EXCEPT !.pd = TRUE]
                ELSE ev[i]]
    /\ nOps' = nOps + 1
    /\ UNCHANGED <<mpc, delay, observer, event_handler, hot_folder, msg,
                   joinRem, h_delay, h_running, o_stopped, thr, queue, tpc,
                   cur, rem, sid, stopRet, ports, inst, shut>>

\* clear_log
ClearLog ==
    /\ CanCommand
    /\ log' = <<>>
    /\ video_count' = 0
    /\ nOps' = nOps + 1
    /\ UNCHANGED <<mpc, delay, is_watching, observer, event_handler,
                   hot_folder, msg, joinRem, h_delay, h_paused, h_running,
                   o_stopped, thr, queue, tpc, cur, rem, ev, sid, stopRet,
                   ports, inst, shut>>

\* the test of update_settings that raises ValueError("Delay must be non-negative")
DelayRejected(x) == FloatLt(x, 0)

\* update_settings as it would be if it set Application.delay only
UpdateSettingsAppOnly(txt) ==
    /\ CanCommand
    /\ LET r == ParseFloat(txt) IN
         IF r.ok /\ ~DelayRejected(r.val)
         THEN /\ delay' = r.val
              /\ msg' = "Success: Delay updated successfully"
              /\ UNCHANGED h_delay
         ELSE /\ msg' = "Error: Invalid delay value"
              /\ UNCHANGED <<delay, h_delay>>
    /\ nOps' = nOps + 1
    /\ UNCHANGED <<mpc, video_count, is_watching, observer, event_handler,
                   hot_folder, log, joinRem, h_paused, h_running, o_stopped,
                   thr, queue, tpc, cur, rem, ev, sid, stopRet, ports, inst,
                   shut>>

\* update_settings, with txt the text of the delay entry
UpdateSettings(txt) ==
    /\ CanCommand
    /\ LET r == ParseFloat(txt) IN
         IF r.ok /\ ~DelayRejected(r.val)
         THEN /\ delay' = r.val
              /\ h_delay' = r.val
              /\ msg' = "Success: Delay updated successfully"
         ELSE /\ msg' = "Error: Invalid delay value"
              /\ UNCHANGED <<delay, h_delay>>
    /\ nOps' = nOps + 1
    /\ UNCHANGED <<mpc, video_count, is_watching, observer, event_handler,
                   hot_folder, log, joinRem, h_paused, h_running, o_stopped,
                   thr, queue, tpc, cur, rem, ev, sid, stopRet, ports, inst,
                   shut>>

\* VideoHandler.stop: the value it gives is_running
VideoHandlerStop == FALSE

\* browse_folder with a folder chosen, up to restart_observer's
\* self.observer.stop()
BrowseFolder(f) ==
    /\ CanCommand
    /\ hot_folder' = f
    /\ o_stopped' = TRUE
    /\ mpc' = "ro_join"
    /\ nOps' = nOps + 1
    /\ UNCHANGED <<delay, video_count, is_watching, observer, event_handler,
                   log, msg, joinRem, h_delay, h_paused, h_running, thr,
                   queue, tpc, cur, rem, ev, sid, stopRet, ports, inst, shut>>

\* restart_observer: self.observer.join() raises RuntimeError for a thread
\* that was never started; the command ends there
RestartJoinError ==
    /\ mpc = "ro_join" /\ thr \in {"new", "failed"}
    /\ mpc' = "idle"
    /\ UNCHANGED <<delay, video_count, is_watching, observer, event_handler,
                   hot_folder, log, msg, joinRem, h_delay, h_paused,
                   h_running, o_stopped, thr, queue, tpc, cur, rem, ev, sid,
                   stopRet, nOps, ports, inst, shut>>

\* restart_observer: the join returns once the dispatch thread has ended;
\* start_watching then calls stop_watching for the old pair: the handler is
\* stopped, the observer is told to stop once more, the join returns at
\* once and the references are dropped
RestartJoin ==
    /\ mpc = "ro_join" /\ thr = "dead"
    /\ h_running' = VideoHandlerStop
    /\ o_stopped' = TRUE
    /\ observer' = FALSE
    /\ event_handler' = FALSE
    /\ stopRet' = TRUE
    /\ mpc' = "ro_start"
    /\ UNCHANGED <<delay, video_count, is_watching, hot_folder, log, msg,
                   joinRem, h_delay, h_paused, thr, queue, tpc, cur, rem, ev,
                   sid, nOps, ports, inst, shut>>

\* start_watching after stop_watching: a new VideoHandler(self.delay, ...)
\* and a new Observer are created and the starter thread is started.
\* If schedule raises, the references stay set, no starter thread is
\* created and the except clause shows an error box; otherwise
\* restart_observer goes on to its success box.
StartWatching ==
    /\ mpc = "ro_start"
    /\ h_delay' = delay
    /\ h_paused' = FALSE
    /\ h_running' = TRUE
    /\ o_stopped' = FALSE
    /\ queue' = <<>>
    /\ tpc' = "idle"
    /\ cur' = NoEvent
    /\ rem' = 0
    /\ observer' = TRUE
    /\ event_handler' = TRUE
    /\ sid' = sid + 1
    /\ stopRet' = FALSE
    /\ \E raises \in ScheduleRaises(hot_folder) :
         IF raises
         THEN /\ thr' = "failed"
              /\ msg' = "Error: Failed to start watching folder"
              /\ mpc' = "ro_box"
         ELSE /\ thr' = "new"
              /\ msg' = "Success: Watch folder updated successfully"
              /\ mpc' = "idle"
    /\ UNCHANGED <<delay, video_count, is_watching, hot_folder, log, joinRem,
                   ev, nOps, ports, inst, shut>>

\* restart_observer after the error box of start_watching has been closed:
\* messagebox.showinfo("Success", ...)
RestartSuccess ==
    /\ mpc = "ro_box"
    /\ msg' = "Success: Watch folder updated successfully"
    /\ mpc' = "idle"
    /\ UNCHANGED <<delay, video_count, is_watching, observer, event_handler,
                   hot_folder, log, joinRem, h_delay, h_paused, h_running,
                   o_stopped, thr, queue, tpc, cur, rem, ev, sid, stopRet,
                   nOps, ports, inst, shut>>

\* the main thread is inside stop_watching, in observer.join(timeout=5):
\* called from safe_exit ("sw_join") or on its own ("st_join")
InStopJoin == mpc \in {"sw_join", "st_join"}

\* where the main thread goes on when stop_watching returns
StopReturn == IF mpc = "sw_join" THEN "exiting" ELSE "idle"

\* stop_watching called on its own, up to self.event_handler.stop();
\* without an observer it does nothing
StopWatching ==
    /\ CanCommand
    /\ IF observer
       THEN /\ h_running' = VideoHandlerStop
            /\ mpc' = "st_stop"
            /\ UNCHANGED stopRet
       ELSE /\ stopRet' = TRUE
            /\ UNCHANGED <<h_running, mpc>>
    /\ nOps' = nOps + 1
    /\ UNCHANGED <<delay, video_count, is_watching, observer, event_handler,
                   hot_folder, log, msg, joinRem, h_delay, h_paused,
                   o_stopped, thr, queue, tpc, cur, rem, ev, sid, ports, inst,
                   shut>>

\* safe_exit -> stop_watching, up to self.event_handler.stop()
SafeExit ==
    /\ CanCommand
    /\ IF observer
       THEN /\ h_running' = VideoHandlerStop
            /\ mpc' = "sw_stop"
            /\ UNCHANGED stopRet
       ELSE /\ mpc' = "exiting"
            /\ stopRet' = TRUE
            /\ UNCHANGED h_running
    /\ nOps' = nOps + 1
    /\ shut' = {"stop"}
    /\ UNCHANGED <<delay, video_count, is_watching, observer, event_handler,
                   hot_folder, log, msg, joinRem, h_delay, h_paused,
                   o_stopped, thr, queue, tpc, cur, rem, ev, sid, ports,
                   inst>>

\* stop_watching: self.observer.stop(), up to self.observer.join(timeout=5)
ObserverStop ==
    /\ mpc \in {"sw_stop", "st_stop"}
    /\ o_stopped' = TRUE
    /\ joinRem' = JoinTimeout
    /\ mpc' = IF mpc = "sw_stop" THEN "sw_join" ELSE "st_join"
    /\ UNCHANGED <<delay, video_count, is_watching, observer, event_handler,
                   hot_folder, log, msg, h_delay, h_paused, h_running, thr,
                   queue, tpc, cur, rem, ev, sid, stopRet, nOps, ports, inst,
                   shut>>

\* stop_watching: the join raises RuntimeError for a thread never started;
\* the except clause prints it and the references are kept
StopJoinError ==
    /\ InStopJoin /\ thr \in {"new", "failed"}
    /\ mpc' = StopReturn
    /\ stopRet' = TRUE
    /\ UNCHANGED <<delay, video_count, is_watching, observer, event_handler,
                   hot_folder, log, msg, joinRem, h_delay, h_paused,
                   h_running, o_stopped, thr, queue, tpc, cur, rem, ev, sid,
                   nOps, ports, inst, shut>>

\* stop_watching: the join returns because the thread has ended or because
\* the timeout has expired; the references are dropped
StopJoin ==
    /\ InStopJoin
    /\ thr = "dead" \/ (thr = "run" /\ joinRem = 0)
    /\ observer' = FALSE
    /\ event_handler' = FALSE
    /\ mpc' = StopReturn
    /\ stopRet' = TRUE
    /\ UNCHANGED <<delay, video_count, is_watching, hot_folder, log, msg,
                   joinRem, h_delay, h_paused, h_running, o_stopped, thr,
                   queue, tpc, cur, rem, ev, sid, nOps, ports, inst, shut>>

\* safe_exit after stop_watching: save_config({"hot_folder": ...}).  If it
\* raises, the except clause of safe_exit prints the error and calls
\* sys.exit(1): socket.close() and destroy() are not reached, and the host
\* closes the socket of the ended process.
SaveConfig(raises) ==
    /\ mpc = "exiting"
    /\ shut' = shut \cup {"save"}
    /\ IF raises
       THEN /\ mpc' = "exited"
            /\ ports' = ports \ {inst[1].port}
            /\ inst' = [inst EXCEPT ![1] = [pc |-> "failed", port |-> 0]]
       ELSE /\ mpc' = "closing"
            /\ UNCHANGED <<ports, inst>>
    /\ UNCHANGED <<delay, video_count, is_watching, observer, event_handler,
                   hot_folder, log, msg, joinRem, h_delay, h_paused,
                   h_running, o_stopped, thr, queue, tpc, cur, rem, ev, sid,
                   stopRet, nOps>>

\* safe_exit after save_config: self.socket.close(), self.destroy(),
\* sys.exit(0); the daemon threads end with the process
Exit ==
    /\ mpc = "closing"
    /\ shut' = shut \cup {"close"}
    /\ mpc' = "exited"
    /\ ports' = ports \ {inst[1].port}
    /\ inst' = [inst EXCEPT ![1] = [pc |-> "exited", port |-> 0]]
    /\ UNCHANGED <<delay, video_count, is_watching, observer, event_handler,
                   hot_folder, log, msg, joinRem, h_delay, h_paused,
                   h_running, o_stopped, thr, queue, tpc, cur, rem, ev, sid,
                   stopRet, nOps>>

----------------------------------------------------------------------------
(* The instance lock: Application.instance_check *)

\* instances of the program that may be started on the host
NumInstances == 3

\* ephemeral ports of the host
NumPorts == 2

\* the port instance_check asks for: bind(('localhost', 0))
BindPort == 0

Instances == 1..NumInstances

EphemeralPorts == 1..NumPorts

\* socket.bind: the ports the call may end up bound to ({}: the call raises).
\* Port 0 asks the host for any free ephemeral port.
BindResults(port) ==
    IF port = 0 THEN EphemeralPorts \ ports
    ELSE {port} \ ports

\* instance_check succeeds: the socket is bound and listening
InstanceCheckOk(i) ==
    /\ inst[i].pc = "off"
    /\ \E p \in BindResults(BindPort) :
         /\ ports' = ports \cup {p}
         /\ inst' = [inst EXCEPT ![i] = [pc |-> "locked", port |-> p]]
    /\ UNCHANGED appVars

\* instance_check fails: the error box, then sys.exit(1)
InstanceCheckFail(i) ==
    /\ inst[i].pc = "off"
    /\ BindResults(BindPort) = {}
    /\ inst' = [inst EXCEPT ![i] = [pc |-> "failed", port |-> 0]]
    /\ UNCHANGED ports
    /\ UNCHANGED appVars

\* the rest of __init__: start_watching
InstanceStart(i) ==
    /\ inst[i].pc = "locked"
    /\ inst' = [inst EXCEPT ![i].pc = "watching"]
    /\ UNCHANGED ports
    /\ UNCHANGED appVars

\* the process ends (safe_exit closes the socket; so does the host for a
\* process that ends in any other way)
InstanceExit(i) ==
    /\ inst[i].pc = "watching"
    /\ ports' = ports \ {inst[i].port}
    /\ inst' = [inst EXCEPT ![i] = [pc |-> "exited", port |-> 0]]
    /\ UNCHANGED appVars

\* the operator starts the program again
InstanceRelaunch(i) ==
    /\ inst[i].pc \in {"failed", "exited"}
    /\ inst' = [inst EXCEPT ![i].pc = "off"]
    /\ UNCHANGED ports
    /\ UNCHANGED appVars

----------------------------------------------------------------------------
(* Specifications *)

\* one running instance, after Application.__init__
Init ==
    /\ InitApp
    /\ ports = {1}
    /\ inst = [i \in Instances |->
                 IF i = 1 THEN [pc |-> "watching", port |-> 1]
                 ELSE [pc |-> "off", port |-> 0]]

Next ==
    \/ Dispatch
    \/ CallbackInsert
    \/ CallbackCount
    \/ SleepStart
    \/ \E o \in LaunchOutcomes : PlayVideo(o)
    \/ ThreadExit
    \/ ObserverStart
    \/ ObserverStartFail
    \/ \E c \in Creations : RaiseEvent(c)
    \/ Tick
    \/ ToggleWatching
    \/ ClearLog
    \/ \E txt \in DelayTexts : UpdateSettings(txt)
    \/ \E f \in Folders : BrowseFolder(f)
    \/ RestartJoinError
    \/ RestartJoin
    \/ StartWatching
    \/ RestartSuccess
    \/ SafeExit
    \/ ObserverStop
    \/ StopJoinError
    \/ StopJoin
    \/ \E raises \in BOOLEAN : SaveConfig(raises)
    \/ Exit

Spec == Init /\ [][Next]_vars

\* several instances of the program starting on one host
InitLock ==
    /\ InitApp
    /\ ports = {}
    /\ inst = [i \in Instances |-> [pc |-> "off", port |-> 0]]

NextLock ==
    \E i \in Instances :
        \/ InstanceCheckOk(i)
        \/ InstanceCheckFail(i)
        \/ InstanceStart(i)
        \/ InstanceExit(i)
        \/ InstanceRelaunch(i)

SpecLock == InitLock /\ [][NextLock]_vars

\* stop_watching called at any moment the main thread is idle, any number
\* of times, on a watching application
NextStop ==
    \/ Dispatch
    \/ CallbackInsert
    \/ CallbackCount
    \/ SleepStart
    \/ \E o \in LaunchOutcomes : PlayVideo(o)
    \/ ThreadExit
    \/ ObserverStart
    \/ \E c \in Creations : RaiseEvent(c)
    \/ Tick
    \/ StopWatching
    \/ ObserverStop
    \/ StopJoinError
    \/ StopJoin

SpecStop == Init /\ [][NextStop]_vars


----------------------------------------------------------------------------
(* Properties *)

\* the created names that are video files: not a directory, and a name that
\* ends in .mp4, .avi or .mkv whatever the case of its letters
VideoNames == { <<"B", ".", "M", "k", "v">> }

VideoPaths == { <<f, "/">> \o n : f \in {"D", "E"}, n \in VideoNames }

IsVideo(h) == ~h.isDir /\ h.path \in VideoPaths

Events == 1..Len(ev)

\* on_created is still at work on notification i
InFlight(i) == cur.id = i

\* C1: an allowed, non-directory file whose creation event is handled while
\* the session is running and not paused gets exactly one Detection entry
\* (and one count) at detection time, and then exactly one launch, of that
\* same path, never before the delay the sleep was started with has elapsed;
\* the launch is missing only while on_created is still at work on the file.
\* (time.sleep raising for a delay that is not a number >= 0 is outside the
\* claim, which speaks of delays d >= 0.)
C1_DetectThenLaunchAfterDelay ==
    \A i \in Events :
        LET h == ev[i] IN
        (IsVideo(h) /\ h.handled /\ ~h.hp /\ h.hr) =>
            /\ h.det = 1 \/ (InFlight(i) /\ tpc = "cb" /\ h.det = 0)
            /\ h.cnt = 1 \/ (InFlight(i) /\ tpc \in {"cb", "cnt"} /\ h.cnt = 0)
            /\ h.lau <= 1
            /\ h.lau = 1 =>
                 /\ h.det = 1 /\ h.slp = 1
                 /\ h.el >= h.d
                 /\ h.lp = h.path
            /\ ~InFlight(i) => (h.lau = 1 \/ h.slpErr)
            /\ (InFlight(i) /\ tpc = "sleeping") => (h.lau = 0 /\ h.el + rem >= h.d)

\* C1 witness: a video detected in a running session was launched after the
\* default delay of 5 seconds had elapsed, with no pause or stop in between
C1_Witness ==
    \E i \in Events :
        /\ IsVideo(ev[i]) /\ ~ev[i].hp /\ ev[i].hr
        /\ ev[i].det = 1 /\ ev[i].lau = 1
        /\ ev[i].d = DefaultDelay /\ ev[i].el = DefaultDelay
        /\ ~ev[i].pd /\ ~ev[i].pl /\ ~ev[i].as

\* C2: a creation event of a directory, or of a name that is not a video
\* name, never gets a log entry, a count, a delay or a launch, in whatever
\* state the session is
C2_NonVideoIgnored ==
    \A i \in Events :
        LET h == ev[i] IN
        ~IsVideo(h) =>
            /\ h.det = 0 /\ h.cnt = 0 /\ h.slp = 0 /\ h.lau = 0 /\ ~h.slpErr
            /\ ~InFlight(i)

\* C2 witness: a directory named like a video and a text file were both
\* handled by a running, unpaused session, and nothing was logged or counted
C2_Witness ==
    /\ \E i \in Events : ev[i].isDir /\ ev[i].handled /\ ~ev[i].hp /\ ev[i].hr
    /\ \E j \in Events : ~ev[j].isDir /\ ~IsVideo(ev[j]) /\ ev[j].handled
                          /\ ~ev[j].hp /\ ev[j].hr
    /\ log = <<>> /\ video_count = 0


\* C3: a file that was detected, whose delay toggle_watching paused, and
\* whose delay ended while the handler was still paused, keeps its Detection
\* entry and is not launched
C3_PausedDuringDelayNotLaunched ==
    \A i \in Events :
        LET h == ev[i] IN
        h.pd => /\ h.det = 1
                /\ ~(h.lau > 0 /\ h.pl)

\* C4: a file whose creation event was raised while the handler was paused
\* is never launched
C4_RaisedWhilePausedNeverLaunched ==
    \A i \in Events : ev[i].rp => ev[i].lau = 0

C6_NothingPendingAfterStop ==
    /\ stopRet => ~(thr = "run" /\ tpc = "sleeping")
    /\ \A i \in Events : ~ev[i].as

\* C7: at most one instance of the program holds the instance lock
C7_OneInstanceHoldsLock ==
    Cardinality({i \in Instances : inst[i].pc \in {"locked", "watching"}}) <= 1

\* C8 as claimed: the creation event of a video never waits in the observer's
\* queue while time passes (its Detection does not wait for another file's
\* delay)
C8_NoWaitBehindDelay ==
    \A i \in Events : IsVideo(ev[i]) => ~ev[i].q

\* C8 as amended: within a session on_created is not called for a later
\* event before the launch of every file detected earlier has been issued
C8_DelaysSerialized ==
    \A i \in Events : \A j \in Events :
        (i < j /\ ev[i].sid = ev[j].sid /\ ev[i].det >= 1 /\ ev[j].handled)
            => ev[i].lau = 1

\* C8 witness: a second video waited in the queue during the first video's
\* delay and was detected after the first had been launched
C8_Witness ==
    \E i \in Events : \E j \in Events :
        /\ i < j /\ ev[i].sid = ev[j].sid
        /\ IsVideo(ev[i]) /\ IsVideo(ev[j])
        /\ ev[j].q /\ ev[j].det = 1 /\ ev[i].lau = 1

BadDelayTexts == { <<"-", "1">>, <<"a", "b", "c">> }

\* C10: update_settings with a negative or non-numeric text shows an error
\* and changes neither delay, nor the pause state, nor the session; and
\* every delay of the application and of a handler is a number >= 0
C10_BadDelayRejected ==
    [][ /\ \A txt \in BadDelayTexts :
             UpdateSettings(txt) =>
                 /\ msg' = "Error: Invalid delay value"
                 /\ UNCHANGED <<delay, h_delay, h_paused, is_watching, sid,
                                observer, event_handler, thr, o_stopped>>
        /\ FloatGe(delay', 0) /\ FloatGe(h_delay', 0) ]_vars

\* C11: when a handler/observer pair is created for a folder that is not
\* there, an error is shown and the application is left without observer
\* and handler; and while the hot folder is one that is not there, no
\* "Watch folder updated successfully" is shown
C11_FailedStartReported ==
    [][ /\ (sid' # sid /\ ~DirExists(hot_folder')) =>
             /\ msg' = "Error: Failed to start watching folder"
             /\ ~observer' /\ ~event_handler'
        /\ (~DirExists(hot_folder') /\ msg' # msg) =>
             msg' # "Success: Watch folder updated successfully" ]_vars

\* C12: when safe_exit has ended the process, all three steps of the
\* shutdown have been called: stop_watching, save_config and socket.close
C12_AllShutdownStepsAttempted ==
    mpc = "exited" => shut = {"stop", "save", "close"}

\* C13: a launch that fails (the opener returns a non-zero exit status, or
\* the call raises) adds an entry to the log and leaves the dispatch thread
\* running and ready for the next event
C13_FailedLaunchNonFatal ==
    [][ \A o \in {"nonzero", "raise"} :
            PlayVideo(o) =>
                /\ Len(log') = Len(log) + 1
                /\ thr' = "run" /\ tpc' = "idle" ]_vars

\* the state of the application and of its session that stop_watching can
\* see or touch
StopState == <<observer, event_handler, h_running, h_paused, h_delay,
               o_stopped, delay, video_count, is_watching, hot_folder, log,
               msg, sid>>

\* C14: once stop_watching has returned, every step of a further call of
\* stop_watching leaves the references, the handler's flags, the observer
\* and the rest of the application as they are, and returns to the
\* mainloop; without an observer the call is a single step that does
\* not enter the join
C14_StopIdempotent ==
    [][ ((StopWatching \/ ObserverStop \/ StopJoin \/ StopJoinError)
         /\ stopRet) =>
            /\ UNCHANGED StopState
            /\ UNCHANGED <<thr, queue, tpc, cur, rem, ev, stopRet>>
            /\ mpc' \in {"idle", "st_stop", "st_join"}
            /\ ~observer => (mpc' = "idle" /\ UNCHANGED joinRem) ]_vars

\* the entries of the log that are not status messages
DetectionLines == {k \in 1..Len(log) : ~StartsWithMonitoring(log[k])}

\* C15: except while add_video_to_list is between inserting a line and
\* counting it, video_count is the number of Detection entries in the log
C15_CountMatchesLog ==
    tpc # "cnt" => video_count = Cardinality(DetectionLines)

\* C16: while the application has a handler, is_watching is False exactly
\* when that handler's is_paused is True
C16_PauseStateAgrees ==
    event_handler => (~is_watching <=> h_paused)

\* C17: of two files of one session with a Detection entry, the one logged
\* first has been launched before the other was logged, and is launched
\* before the other is
C17_LaunchOrderIsDetectionOrder ==
    \A i \in Events : \A j \in Events :
        (/\ ev[i].sid = ev[j].sid
         /\ ev[i].det >= 1 /\ ev[j].det >= 1
         /\ ev[i].dn < ev[j].dn)
        => /\ ev[i].lau = 1
           /\ ev[i].ln < ev[j].dn
           /\ ev[j].lau >= 1 => ev[i].ln < ev[j].ln

\* C17 witness: two videos of one session were each logged and launched,
\* the second logged after the launch of the first
C17_Witness ==
    \E i \in Events : \E j \in Events :
        /\ ev[i].sid = ev[j].sid
        /\ IsVideo(ev[i]) /\ IsVideo(ev[j])
        /\ ev[i].lau = 1 /\ ev[j].lau = 1
        /\ ev[i].dn < ev[i].ln /\ ev[i].ln < ev[j].dn /\ ev[j].dn < ev[j].ln

\* an event whose condition on_created evaluated when its handler had been
\* stopped gets no Detection entry, no count, no delay and no launch
StoppedHandlerIgnores ==
    \A i \in Events :
        (ev[i].handled /\ ~ev[i].hr) =>
            /\ ev[i].det = 0 /\ ev[i].cnt = 0 /\ ev[i].slp = 0
            /\ ev[i].lau = 0 /\ ~InFlight(i)

\* C18: a new handler/observer pair is created only when the handler of the
\* pair before it has is_running = False, its observer has been told to
\* stop and its dispatch thread is not running; and a handler that is
\* called after it was stopped logs and launches nothing
C18_OneSessionAcceptsEvents ==
    [][ /\ sid' # sid => (~h_running /\ o_stopped /\ thr # "run")
        /\ StoppedHandlerIgnores' ]_vars

\* C18 witness: in the session created by a folder change, after the old
\* pair had been stopped, a video was handed to the handler after
\* handler.stop() and was ignored
C18_Witness ==
    /\ sid = 2
    /\ \E i \in Events :
         /\ ev[i].sid = 2 /\ IsVideo(ev[i])
         /\ ev[i].handled /\ ~ev[i].hr /\ ~ev[i].hp
         /\ ev[i].det = 0 /\ ev[i].lau = 0

====
